---- MODULE Spec2Model ----
(***************************************************************************)
(* Model of the CONNECT proxy: the Recorder (src/recorder/mod.rs), the     *)
(* HttpReader, handle_client and forward_streams (src/main.rs).            *)
(***************************************************************************)
EXTENDS Integers, Sequences, FiniteSets, TLC

(* ------------------------------ bounds --------------------------------- *)
MaxWritten == 3
MaxWriteLen == 2
MaxReaders == 2
MaxReadLen == 3
MaxCut == 2
MaxPayload == 2

Bytes == {1, 2}

VARIABLES
  buf,        \* Recorder.buf, the logical content of the VecDeque
  states,     \* Recorder.states: sequence of [reader_length, waker]
  poisoned,   \* the Mutex<Recorder> is poisoned (a holder panicked)
  readers,    \* the RecorderReader handles created so far: [index]
  rstate,     \* per handle: "runnable" | "suspended" (returned Pending)
  written,    \* history: every byte accepted by poll_write, in order
  trimmed,    \* history: number of bytes drained from the head of buf
  delivered,  \* history: per handle, the bytes put into its ReadBuf
  regAt,      \* history: per handle, Len(written) when it was created
  lastOp,     \* history: the last operation that completed
  lastRead,   \* history: the last poll_read: [h, remaining, front, n]
  \* handle_client (main.rs)
  hbuf,         \* HttpReader.buf
  pc,           \* where handle_client is: "scan", "fill", "resolve", ...
  phase,        \* which read_lines call is running: "request" | "headers"
  connect_line, \* the first line read (<<>> until then)
  lines,        \* history: the lines read_lines returned, in order
  inbound,      \* bytes the client sent that the proxy has not read yet
  fed,          \* history: the bytes client_stream.read returned, in order
  eof,          \* client_stream.read has returned 0
  cout,         \* responses written to the client, in order
  target,       \* TcpStream::connect calls made: [host, port, ok]
  result,       \* what handle_client returned ("running" until then)
  \* forward_streams (main.rs)
  trec,     \* the two Recorders: [direction -> [buf, states]]
  loop,     \* the four io::copy futures: "run" | "done" | "err"
  hold,     \* per copy: bytes read from its source, not yet written
  rdone,    \* per copy: its source has reported end-of-stream
  sockIn,   \* per socket: bytes the peer sent that were not read yet
  sockOut,  \* per socket: bytes written to the peer, in order
  sockAll,  \* history: per socket, everything the peer sends
  tunnel    \* the result of try_join!: "running" | "Ok" | "Err"

recVars == <<buf, states, poisoned, readers, rstate, written, trimmed,
             delivered, regAt, lastOp, lastRead>>

hsVars == <<hbuf, pc, phase, connect_line, lines, inbound, fed, eof, cout,
            target, result>>

tnVars == <<trec, loop, hold, rdone, sockIn, sockOut, sockAll, tunnel>>

vars == <<recVars, hsVars, tnVars>>

(* ------------------------------ helpers -------------------------------- *)
min(a, b) == IF a < b THEN a ELSE b

SeqsUpTo(S, lo, hi) == UNION {[1..n -> S] : n \in lo..hi}

IsPrefix(s, t) == Len(s) <= Len(t) /\ SubSeq(t, 1, Len(s)) = s

RECURSIVE MinReaderLength(_)
MinReaderLength(ss) ==
  IF Len(ss) = 1 THEN ss[1].reader_length
  ELSE min(ss[1].reader_length, MinReaderLength(Tail(ss)))

get_overlap_noshift(b, buf_offset, begin, size) ==
  LET end0 == min(begin + size, Len(b))
  IN  SubSeq(b, min(begin, Len(b)) + 1, end0)

get_overlap_inclusive(b, buf_offset, begin, size) ==
  LET begin1 == IF begin > buf_offset THEN begin - buf_offset ELSE 0
      end1   == IF begin + size > buf_offset
                THEN begin + size - buf_offset + 1 ELSE 0
  IN  SubSeq(b, min(begin1, Len(b)) + 1, min(end1, Len(b)))

(* get_overlap(buf, buf_offset, begin, size): the part of the physical run
   buf, placed at logical offset buf_offset, that lies in [begin, begin+size) *)
get_overlap(b, buf_offset, begin, size) ==
  LET end0   == begin + size
      begin1 == IF begin > buf_offset THEN begin - buf_offset ELSE 0
      end1   == IF end0 > buf_offset THEN end0 - buf_offset ELSE 0
      begin2 == IF begin1 > Len(b) THEN Len(b) ELSE begin1
      end2   == IF end1 > Len(b) THEN Len(b) ELSE end1
  IN  SubSeq(b, begin2 + 1, end2)

(* VecDeque::as_slices: the two physical runs of the ring buffer. The split
   point depends on the ring's head and capacity; every split with a
   non-empty front run is possible for a non-empty queue. *)
as_slices(q) ==
  IF Len(q) = 0 THEN {<<q, q>>}
  ELSE {<<SubSeq(q, 1, k), SubSeq(q, k + 1, Len(q))>> : k \in 1..Len(q)}

(* handle_client has not been entered *)
HsIdle ==
  /\ hbuf = <<>>
  /\ pc = "idle"
  /\ phase = "request"
  /\ connect_line = <<>>
  /\ lines = <<>>
  /\ inbound = <<>>
  /\ fed = <<>>
  /\ eof = FALSE
  /\ cout = <<>>
  /\ target = <<>>
  /\ result = "running"

(* forward_streams has not been entered *)
TnIdle ==
  /\ trec = <<>>
  /\ loop = <<>>
  /\ hold = <<>>
  /\ rdone = <<>>
  /\ sockIn = <<>>
  /\ sockOut = <<>>
  /\ sockAll = <<>>
  /\ tunnel = "idle"

(* the last operation was not a poll_read *)
NoRead == [h |-> 0, remaining |-> 0, front |-> 0, n |-> 0]

(* --------------------------- Recorder::new ------------------------------ *)
RecorderInit ==
  /\ buf = <<>>
  /\ states = <<>>
  /\ poisoned = FALSE
  /\ readers = <<>>
  /\ rstate = <<>>
  /\ written = <<>>
  /\ trimmed = 0
  /\ delivered = <<>>
  /\ regAt = <<>>
  /\ lastOp = "new"
  /\ lastRead = NoRead

(* ------------------------- RecorderReader::new -------------------------- *)
NewReaderIndex(q, ss) == Len(q)

RecorderReader_new ==
  /\ ~poisoned
  /\ Len(readers) < MaxReaders
  /\ readers' = Append(readers, [index |-> NewReaderIndex(buf, states)])
  /\ states' = Append(states, [reader_length |-> 0, waker |-> 0])
  /\ rstate' = Append(rstate, "runnable")
  /\ delivered' = Append(delivered, <<>>)
  /\ regAt' = Append(regAt, Len(written))
  /\ lastOp' = "register"
  /\ lastRead' = NoRead
  /\ UNCHANGED <<hsVars, tnVars>>
  /\ UNCHANGED <<buf, poisoned, written, trimmed>>

(* ---------------------- RecorderReader::poll_read ----------------------- *)
(* states[self.index] with the index out of bounds panics while the lock is
   held: the mutex is poisoned and the reader's task is gone. *)
poll_read_panic(h) ==
  /\ ~poisoned
  /\ rstate[h] = "runnable"
  /\ readers[h].index >= Len(states)
  /\ poisoned' = TRUE
  /\ rstate' = [rstate EXCEPT ![h] = "panicked"]
  /\ lastOp' = "read_panic"
  /\ lastRead' = NoRead
  /\ UNCHANGED <<hsVars, tnVars>>
  /\ UNCHANGED <<buf, states, readers, written, trimmed, delivered, regAt>>

Available(h) == Len(buf) - states[readers[h].index + 1].reader_length

poll_read_pending(h) ==
  /\ ~poisoned
  /\ rstate[h] = "runnable"
  /\ readers[h].index < Len(states)
  /\ Available(h) = 0
  /\ states' = [states EXCEPT ![readers[h].index + 1].waker = h]
  /\ rstate' = [rstate EXCEPT ![h] = "suspended"]
  /\ lastOp' = "read_pending"
  /\ \E remaining \in 0..MaxReadLen :
       lastRead' = [h |-> h, remaining |-> remaining, front |-> 0, n |-> 0]
  /\ UNCHANGED <<hsVars, tnVars>>
  /\ UNCHANGED <<buf, poisoned, readers, written, trimmed, delivered, regAt>>

(* line 109: the number of bytes a read copies *)
ReadCount_remaining(available, remaining) == remaining

ReadCount(available, remaining) == min(available, remaining)

ReadBytes(q, front, back, reader_length, n) ==
  get_overlap(front, 0, reader_length, n)
    \o get_overlap(back, Len(front), reader_length, n)

poll_read_ready(h) ==
  /\ ~poisoned
  /\ rstate[h] = "runnable"
  /\ readers[h].index < Len(states)
  /\ Available(h) # 0
  /\ \E remaining \in 0..MaxReadLen, sl \in as_slices(buf) :
       LET i  == readers[h].index + 1
           rl == states[i].reader_length
           n  == ReadCount(Available(h), remaining)
       IN  /\ delivered' = [delivered EXCEPT
                 ![h] = @ \o ReadBytes(buf, sl[1], sl[2], rl, n)]
           /\ states' = [states EXCEPT ![i].reader_length = rl + n]
           /\ lastRead' = [h |-> h, remaining |-> remaining,
                           front |-> Len(sl[1]), n |-> n]
  /\ lastOp' = "read"
  /\ UNCHANGED <<hsVars, tnVars>>
  /\ UNCHANGED <<buf, poisoned, readers, rstate, written, trimmed, regAt>>

(* ---------------------- RecorderWriter::poll_write ---------------------- *)
poll_write_panic ==
  /\ ~poisoned
  /\ poisoned' = TRUE
  /\ lastOp' = "write_panic"
  /\ lastRead' = NoRead
  /\ UNCHANGED <<hsVars, tnVars>>
  /\ UNCHANGED <<buf, states, readers, rstate, written, trimmed, delivered,
                 regAt>>

TrimCount_none(ss) == 0

TrimCount(ss) == IF Len(ss) = 0 THEN 0 ELSE MinReaderLength(ss)

Wakers(ss) == {ss[i].waker : i \in 1..Len(ss)} \ {0}

StatesAfterWrite_noshift(ss) ==
  [i \in 1..Len(ss) |->
     [reader_length |-> ss[i].reader_length, waker |-> 0]]

(* lines 146-163: extend, take the wakers, drain the minimum cursor *)
BufAfterWrite(q, ss, data) ==
  SubSeq(q \o data, TrimCount(ss) + 1, Len(q) + Len(data))

StatesAfterWrite(ss) ==
  [i \in 1..Len(ss) |->
     [reader_length |-> ss[i].reader_length - TrimCount(ss), waker |-> 0]]

poll_write ==
  /\ ~poisoned
  /\ \E data \in SeqsUpTo(Bytes, 1, MaxWriteLen) :
       /\ Len(written) + Len(data) <= MaxWritten
       /\ buf' = BufAfterWrite(buf, states, data)
       /\ written' = written \o data
  /\ states' = StatesAfterWrite(states)
  /\ trimmed' = trimmed + TrimCount(states)
  /\ rstate' = [h \in 1..Len(rstate) |->
                  IF h \in Wakers(states) /\ rstate[h] = "suspended"
                  THEN "runnable" ELSE rstate[h]]
  /\ lastOp' = "write"
  /\ lastRead' = NoRead
  /\ UNCHANGED <<hsVars, tnVars>>
  /\ UNCHANGED <<poisoned, readers, delivered, regAt>>

(* ------------------------- the Broadcast Buffer ------------------------- *)
Init == RecorderInit /\ HsIdle /\ TnIdle

Next ==
  \/ RecorderReader_new
  \/ \E h \in 1..Len(readers) : poll_read_panic(h)
  \/ \E h \in 1..Len(readers) : poll_read_pending(h)
  \/ \E h \in 1..Len(readers) : poll_read_ready(h)
  \/ poll_write
  \/ poll_write_panic

Spec == Init /\ [][Next]_vars

(* The configuration forward_streams builds: one RecorderReader created on
   the empty Recorder before anything is written (main.rs 79-91). *)
InitOne ==
  /\ buf = <<>>
  /\ states = <<[reader_length |-> 0, waker |-> 0]>>
  /\ poisoned = FALSE
  /\ readers = <<[index |-> 0]>>
  /\ rstate = <<"runnable">>
  /\ written = <<>>
  /\ trimmed = 0
  /\ delivered = << <<>> >>
  /\ regAt = <<0>>
  /\ lastOp = "register"
  /\ lastRead = NoRead
  /\ HsIdle
  /\ TnIdle

NextOne ==
  \/ poll_read_pending(1)
  \/ poll_read_ready(1)
  \/ poll_write

SpecOne == InitOne /\ [][NextOne]_vars


(* ============================ handle_client ============================ *)
ChunkSize == 4096

CRLF == <<13, 10>>
Str_CONNECT_SP == <<67, 79, 78, 78, 69, 67, 84, 32>>
Str_HTTP11 == <<72, 84, 84, 80, 47, 49, 46, 49>>
Str_443 == <<52, 52, 51>>

(* request lines the client may send *)
Line_CONNECT_h_1 == Str_CONNECT_SP \o <<104, 58, 49, 32>> \o Str_HTTP11
Line_CONNECT_h == Str_CONNECT_SP \o <<104, 32>> \o Str_HTTP11
Line_CONNECT_h_x == Str_CONNECT_SP \o <<104, 58, 120, 32>> \o Str_HTTP11
Line_CONNECT_2tok == Str_CONNECT_SP \o <<104, 58, 49>>
Line_CONNECT_http10 ==
  Str_CONNECT_SP \o <<104, 58, 49, 32, 72, 84, 84, 80, 47, 49, 46, 48>>
Line_GET == <<71, 69, 84, 32, 47, 32>> \o Str_HTTP11
Line_GET_2tok == <<71, 69, 84, 32, 47>>
Line_BadUtf8 == <<255>>
Line_Header == <<65, 58, 98>>

Requests ==
  { Line_CONNECT_h_1 \o CRLF \o CRLF,
    Line_CONNECT_h_1 \o CRLF \o Line_Header \o CRLF \o CRLF,
    Line_CONNECT_h_1 \o CRLF \o Line_BadUtf8 \o CRLF \o CRLF,
    Line_CONNECT_h \o CRLF \o CRLF,
    Line_CONNECT_h_x \o CRLF \o CRLF,
    Line_CONNECT_2tok \o CRLF \o CRLF,
    Line_CONNECT_http10 \o CRLF \o CRLF,
    Line_GET \o CRLF \o CRLF,
    Line_GET_2tok \o CRLF \o CRLF,
    Line_BadUtf8 \o CRLF \o CRLF }

SetMin(S) == CHOOSE x \in S : \A y \in S : x <= y

Zeros(n) == [i \in 1..n |-> 0]

(* Vec::truncate *)
truncate(v, len) == IF len >= Len(v) THEN v ELSE SubSeq(v, 1, len)

(* the positions of buf.windows(2) that equal [b'\r', b'\n'] *)
CrlfPositions(b) ==
  {i \in 1..(Len(b) - 1) : b[i] = CRLF[1] /\ b[i + 1] = CRLF[2]}

(* std::str::from_utf8 on the bytes the client can send here: ASCII is
   valid, 0xFF never occurs in UTF-8 *)
from_utf8_ok(s) == \A i \in 1..Len(s) : s[i] < 128

(* get_line_fro_vec: GetLineResult(n, line), or the InvalidData error *)
get_line_fro_vec(b) ==
  IF CrlfPositions(b) = {}
  THEN [err |-> FALSE, n |-> 0, line |-> <<>>]
  ELSE LET n == SetMin(CrlfPositions(b)) - 1
       IN  IF from_utf8_ok(SubSeq(b, 1, n))
           THEN [err |-> FALSE, n |-> n + 2, line |-> SubSeq(b, 1, n)]
           ELSE [err |-> TRUE, n |-> 0, line |-> <<>>]

(* the length read_lines truncates its buffer to after a read of n bytes
   into buf[begin..]; len is the resized length begin + 4096 *)
TruncateLen(len, begin, n) == len - (begin + n)

(* read_lines, lines 64-67: resize, read n bytes into the tail, truncate *)
FillBuf(b, data) ==
  LET begin   == Len(b)
      resized == b \o data \o Zeros(ChunkSize - Len(data))
  IN  truncate(resized, TruncateLen(Len(resized), begin, Len(data)))

(* str::split_whitespace *)
IsWhitespace(c) == c \in {9, 10, 11, 12, 13, 32}

TokenStarts(s) ==
  {i \in 1..Len(s) : ~IsWhitespace(s[i]) /\ (i = 1 \/ IsWhitespace(s[i - 1]))}

TokenEnd(s, i) ==
  SetMin({k \in i..Len(s) : IsWhitespace(s[k])} \cup {Len(s) + 1}) - 1

NthTokenStart(s, k) ==
  CHOOSE i \in TokenStarts(s) :
    Cardinality({j \in TokenStarts(s) : j < i}) = k - 1

split_whitespace(s) ==
  [k \in 1..Cardinality(TokenStarts(s)) |->
     SubSeq(s, NthTokenStart(s, k), TokenEnd(s, NthTokenStart(s, k)))]

starts_with(s, p) == Len(s) >= Len(p) /\ SubSeq(s, 1, Len(p)) = p

(* host_port.split(':'): first piece, and second piece or "443" *)
ColonPositions(s) == {i \in 1..Len(s) : s[i] = 58}

HostOf(s) ==
  IF ColonPositions(s) = {} THEN s
  ELSE SubSeq(s, 1, SetMin(ColonPositions(s)) - 1)

PortStrOf_default80(s) ==
  IF ColonPositions(s) = {} THEN <<56, 48>>
  ELSE LET c1   == SetMin(ColonPositions(s))
           rest == {i \in ColonPositions(s) : i > c1}
           c2   == IF rest = {} THEN Len(s) + 1 ELSE SetMin(rest)
       IN  SubSeq(s, c1 + 1, c2 - 1)

PortStrOf(s) ==
  IF ColonPositions(s) = {} THEN Str_443
  ELSE LET c1   == SetMin(ColonPositions(s))
           rest == {i \in ColonPositions(s) : i > c1}
           c2   == IF rest = {} THEN Len(s) + 1 ELSE SetMin(rest)
       IN  SubSeq(s, c1 + 1, c2 - 1)

(* str::parse::<u16>: optional '+', then at least one digit, value at most
   65535; -1 stands for the parse error *)
RECURSIVE DigitsValue(_)
DigitsValue(d) ==
  IF Len(d) = 0 THEN 0
  ELSE DigitsValue(SubSeq(d, 1, Len(d) - 1)) * 10 + (d[Len(d)] - 48)

parse_u16(s) ==
  LET d == IF Len(s) > 0 /\ s[1] = 43 THEN Tail(s) ELSE s
  IN  IF Len(d) = 0 \/ \E i \in 1..Len(d) : d[i] < 48 \/ d[i] > 57
      THEN -1
      ELSE IF DigitsValue(d) > 65535 THEN -1 ELSE DigitsValue(d)

(* send_error / the 200 acknowledgment, as written to the client *)
Response(code, body) ==
  [code |-> code, phrase |-> "Connection Established", body |-> body]

(* a connection was accepted: handle_client starts with an empty HttpReader;
   the client sends one of the requests *)
HsInit ==
  /\ hbuf = <<>>
  /\ pc = "scan"
  /\ phase = "request"
  /\ connect_line = <<>>
  /\ lines = <<>>
  /\ inbound \in Requests
  /\ fed = <<>>
  /\ eof = FALSE
  /\ cout = <<>>
  /\ target = <<>>
  /\ result = "running"

(* read_lines, lines 55-56: no complete line buffered, go on to read *)
read_lines_none ==
  /\ pc = "scan"
  /\ ~get_line_fro_vec(hbuf).err
  /\ get_line_fro_vec(hbuf).n = 0
  /\ pc' = "fill"
  /\ UNCHANGED <<hbuf, phase, connect_line, lines, inbound, fed, eof, cout,
                 target, result>>
  /\ UNCHANGED <<recVars, tnVars>>

(* the sizes of the next read: a short chunk, or all that is in flight but
   a short tail *)
ReadSizes(avail) ==
  {n \in 1..min(avail, ChunkSize) : n <= MaxCut \/ n >= avail - MaxCut}

(* read_lines, lines 64-67: the source delivers n >= 1 bytes *)
read_lines_fill ==
  /\ pc = "fill"
  /\ ~eof
  /\ \E n \in ReadSizes(Len(inbound)) :
       /\ hbuf' = FillBuf(hbuf, SubSeq(inbound, 1, n))
       /\ fed' = fed \o SubSeq(inbound, 1, n)
       /\ inbound' = SubSeq(inbound, n + 1, Len(inbound))
  /\ pc' = "scan"
  /\ UNCHANGED <<phase, connect_line, lines, eof, cout, target, result>>
  /\ UNCHANGED <<recVars, tnVars>>

(* read_lines, lines 64-67: the source is at end-of-stream, read returns 0 *)
read_lines_fill_eof ==
  /\ pc = "fill"
  /\ inbound = <<>>
  /\ hbuf' = FillBuf(hbuf, <<>>)
  /\ eof' = TRUE
  /\ pc' = "scan"
  /\ UNCHANGED <<phase, connect_line, lines, inbound, fed, cout, target,
                 result>>
  /\ UNCHANGED <<recVars, tnVars>>

(* read_lines, line 66: the read fails; handle_client answers 400 for the
   request line (124-125) and just propagates for a header line (137) *)
read_lines_fill_err ==
  /\ pc = "fill"
  /\ ~eof
  /\ cout' = IF phase = "request"
             THEN Append(cout, Response(400, "Bad Request")) ELSE cout
  /\ result' = "Err(io)"
  /\ pc' = "closed"
  /\ UNCHANGED <<hbuf, phase, connect_line, lines, inbound, fed, eof, target>>
  /\ UNCHANGED <<recVars, tnVars>>

(* read_lines, line 62: invalid UTF-8 before the delimiter *)
read_lines_invalid ==
  /\ pc = "scan"
  /\ get_line_fro_vec(hbuf).err
  /\ cout' = IF phase = "request"
             THEN Append(cout, Response(400, "Bad Request")) ELSE cout
  /\ result' = "Err(InvalidData)"
  /\ pc' = "closed"
  /\ UNCHANGED <<hbuf, phase, connect_line, lines, inbound, fed, eof, target>>
  /\ UNCHANGED <<recVars, tnVars>>

LineFound == pc = "scan" /\ get_line_fro_vec(hbuf).n > 0

Drained == SubSeq(hbuf, get_line_fro_vec(hbuf).n + 1, Len(hbuf))

IsConnect_inverted(line) == ~starts_with(line, Str_CONNECT_SP)

IsConnect(line) == starts_with(line, Str_CONNECT_SP)

WellFormed_count_only(line) == Len(split_whitespace(line)) = 3

WellFormed(line) ==
  /\ Len(split_whitespace(line)) = 3
  /\ split_whitespace(line)[3] = Str_HTTP11

(* handle_client 121-135: the request line is malformed, 400 *)
request_line_400 ==
  /\ LineFound
  /\ phase = "request"
  /\ LET line == get_line_fro_vec(hbuf).line
     IN  /\ IsConnect(line)
         /\ ~WellFormed(line)
         /\ connect_line' = line
         /\ lines' = Append(lines, line)
  /\ hbuf' = Drained
  /\ cout' = Append(cout, Response(400, "Bad Request"))
  /\ result' = "Ok"
  /\ pc' = "closed"
  /\ UNCHANGED <<phase, inbound, fed, eof, target>>
  /\ UNCHANGED <<recVars, tnVars>>

(* handle_client 121-130, 158-162: the line does not start with CONNECT, 405 *)
request_line_405 ==
  /\ LineFound
  /\ phase = "request"
  /\ LET line == get_line_fro_vec(hbuf).line
     IN  /\ ~IsConnect(line)
         /\ connect_line' = line
         /\ lines' = Append(lines, line)
  /\ hbuf' = Drained
  /\ cout' = Append(cout, Response(405, "Method Not Allowed"))
  /\ result' = "Ok"
  /\ pc' = "closed"
  /\ UNCHANGED <<phase, inbound, fed, eof, target>>
  /\ UNCHANGED <<recVars, tnVars>>

(* handle_client 121-136: a CONNECT line accepted, go on to the headers *)
request_line_connect ==
  /\ LineFound
  /\ phase = "request"
  /\ LET line == get_line_fro_vec(hbuf).line
     IN  /\ IsConnect(line)
         /\ WellFormed(line)
         /\ connect_line' = line
         /\ lines' = Append(lines, line)
  /\ hbuf' = Drained
  /\ phase' = "headers"
  /\ UNCHANGED <<pc, inbound, fed, eof, cout, target, result>>
  /\ UNCHANGED <<recVars, tnVars>>

(* handle_client 138: line.is_empty() *)
IsHeaderEnd_any(line) == TRUE

IsHeaderEnd(line) == line = <<>>

(* handle_client 136-143: a header line is read and dropped *)
header_line ==
  /\ LineFound
  /\ phase = "headers"
  /\ ~IsHeaderEnd(get_line_fro_vec(hbuf).line)
  /\ lines' = Append(lines, get_line_fro_vec(hbuf).line)
  /\ hbuf' = Drained
  /\ UNCHANGED <<pc, phase, connect_line, inbound, fed, eof, cout, target,
                 result>>
  /\ UNCHANGED <<recVars, tnVars>>

(* handle_client 136-139: the empty line ends the headers *)
header_end ==
  /\ LineFound
  /\ phase = "headers"
  /\ IsHeaderEnd(get_line_fro_vec(hbuf).line)
  /\ lines' = Append(lines, get_line_fro_vec(hbuf).line)
  /\ hbuf' = Drained
  /\ pc' = "resolve"
  /\ UNCHANGED <<phase, connect_line, inbound, fed, eof, cout, target,
                 result>>
  /\ UNCHANGED <<recVars, tnVars>>

HostPort == split_whitespace(connect_line)[2]

(* handle_client 145-151: the port does not parse *)
resolve_invalid_port ==
  /\ pc = "resolve"
  /\ parse_u16(PortStrOf(HostPort)) = -1
  /\ result' = "Err(InvalidInput)"
  /\ pc' = "closed"
  /\ UNCHANGED <<hbuf, phase, connect_line, lines, inbound, fed, eof, cout,
                 target>>
  /\ UNCHANGED <<recVars, tnVars>>

(* handle_client 145-153: TcpStream::connect((host, port)) succeeds *)
connect_target_ok ==
  /\ pc = "resolve"
  /\ parse_u16(PortStrOf(HostPort)) # -1
  /\ target' = Append(target, [host |-> HostOf(HostPort),
                               port |-> parse_u16(PortStrOf(HostPort)),
                               ok |-> TRUE])
  /\ pc' = "ack"
  /\ UNCHANGED <<hbuf, phase, connect_line, lines, inbound, fed, eof, cout,
                 result>>
  /\ UNCHANGED <<recVars, tnVars>>

(* handle_client 145-152: TcpStream::connect((host, port)) fails *)
connect_target_fail ==
  /\ pc = "resolve"
  /\ parse_u16(PortStrOf(HostPort)) # -1
  /\ target' = Append(target, [host |-> HostOf(HostPort),
                               port |-> parse_u16(PortStrOf(HostPort)),
                               ok |-> FALSE])
  /\ result' = "Err(io)"
  /\ pc' = "closed"
  /\ UNCHANGED <<hbuf, phase, connect_line, lines, inbound, fed, eof, cout>>
  /\ UNCHANGED <<recVars, tnVars>>

(* handle_client 155-157: the 200 is written, forward_streams takes over *)
send_200 ==
  /\ pc = "ack"
  /\ cout' = Append(cout, Response(200, ""))
  /\ pc' = "tunnel"
  /\ UNCHANGED <<hbuf, phase, connect_line, lines, inbound, fed, eof, target,
                 result>>
  /\ UNCHANGED <<recVars, tnVars>>

HsNext ==
  \/ read_lines_none
  \/ read_lines_fill
  \/ read_lines_fill_eof
  \/ read_lines_fill_err
  \/ read_lines_invalid
  \/ request_line_400
  \/ request_line_405
  \/ request_line_connect
  \/ header_line
  \/ header_end
  \/ resolve_invalid_port
  \/ connect_target_ok
  \/ connect_target_fail
  \/ send_200

InitHandshake == RecorderInit /\ HsInit /\ TnIdle

SpecHandshake == InitHandshake /\ [][HsNext]_vars


(* =========================== forward_streams =========================== *)
Dirs == {"client_to_server", "server_to_client"}
Sides == {"client", "target"}

(* the four futures of try_join!, in the order of lines 110-115:
   1 client_to_proxy, 2 proxy_to_target, 3 target_to_proxy, 4 proxy_to_client *)
SocketCopies == {1, 3}
RecorderCopies == {2, 4}

DirOf(i) == IF i \in {1, 2} THEN "client_to_server" ELSE "server_to_client"
SourceOf(i) == IF i = 1 THEN "client" ELSE "target"
SinkOf(i) == IF i = 2 THEN "target" ELSE "client"

(* try_join!: the first error ends the join and drops the other futures;
   it is Ok once all four are done *)
JoinResult_join_all(lp) ==
  IF \E i \in 1..4 : lp[i] = "run" THEN "running"
  ELSE IF \E i \in 1..4 : lp[i] = "err" THEN "Err" ELSE "Ok"

JoinResult(lp) ==
  IF \E i \in 1..4 : lp[i] = "err" THEN "Err"
  ELSE IF \A i \in 1..4 : lp[i] = "done" THEN "Ok" ELSE "running"

(* lines 76-91: both Recorders are new, each with the one RecorderReader
   created on it; each peer will send some bytes *)
TnInit ==
  /\ trec = [d \in Dirs |->
               [buf |-> <<>>,
                states |-> <<[reader_length |-> 0, waker |-> 0]>>,
                index |-> NewReaderIndex(<<>>, <<>>)]]
  /\ loop = [i \in 1..4 |-> "run"]
  /\ hold = [i \in 1..4 |-> <<>>]
  /\ rdone = [i \in 1..4 |-> FALSE]
  /\ sockAll \in [Sides -> SeqsUpTo(Bytes, 0, MaxPayload)]
  /\ sockIn = sockAll
  /\ sockOut = [sd \in Sides |-> <<>>]
  /\ tunnel = "running"

CanRead(i) ==
  /\ tunnel = "running"
  /\ loop[i] = "run"
  /\ hold[i] = <<>>
  /\ ~rdone[i]

(* io::copy from a socket: the read returns some bytes *)
copy_socket_read(i) ==
  /\ CanRead(i)
  /\ \E n \in 1..min(Len(sockIn[SourceOf(i)]), MaxReadLen) :
       /\ hold' = [hold EXCEPT ![i] = SubSeq(sockIn[SourceOf(i)], 1, n)]
       /\ sockIn' = [sockIn EXCEPT ![SourceOf(i)] = SubSeq(@, n + 1, Len(@))]
  /\ UNCHANGED <<trec, loop, rdone, sockOut, sockAll, tunnel>>
  /\ UNCHANGED <<recVars, hsVars>>

(* io::copy from a socket: the peer has closed, the read returns 0 *)
copy_socket_eof(i) ==
  /\ CanRead(i)
  /\ sockIn[SourceOf(i)] = <<>>
  /\ rdone' = [rdone EXCEPT ![i] = TRUE]
  /\ UNCHANGED <<trec, loop, hold, sockIn, sockOut, sockAll, tunnel>>
  /\ UNCHANGED <<recVars, hsVars>>

(* io::copy from a socket: the read fails *)
copy_socket_read_err(i) ==
  /\ CanRead(i)
  /\ loop' = [loop EXCEPT ![i] = "err"]
  /\ tunnel' = JoinResult(loop')
  /\ UNCHANGED <<trec, hold, rdone, sockIn, sockOut, sockAll>>
  /\ UNCHANGED <<recVars, hsVars>>

(* io::copy into a RecorderWriter: poll_write takes the whole chunk *)
copy_recorder_write(i) ==
  /\ tunnel = "running"
  /\ loop[i] = "run"
  /\ hold[i] # <<>>
  /\ trec' = [trec EXCEPT ![DirOf(i)] =
                [buf |-> BufAfterWrite(@.buf, @.states, hold[i]),
                 states |-> StatesAfterWrite(@.states),
                 index |-> @.index]]
  /\ hold' = [hold EXCEPT ![i] = <<>>]
  /\ UNCHANGED <<loop, rdone, sockIn, sockOut, sockAll, tunnel>>
  /\ UNCHANGED <<recVars, hsVars>>

TnAvailable(d) ==
  Len(trec[d].buf) - trec[d].states[trec[d].index + 1].reader_length

(* io::copy from a RecorderReader: nothing to read, poll_read stores the
   waker and returns Pending *)
copy_recorder_read_pending(i) ==
  /\ CanRead(i)
  /\ TnAvailable(DirOf(i)) = 0
  /\ trec[DirOf(i)].states[trec[DirOf(i)].index + 1].waker = 0
  /\ trec' = [trec EXCEPT
                ![DirOf(i)].states[trec[DirOf(i)].index + 1].waker = 1]
  /\ UNCHANGED <<loop, hold, rdone, sockIn, sockOut, sockAll, tunnel>>
  /\ UNCHANGED <<recVars, hsVars>>

(* io::copy from a RecorderReader: poll_read returns bytes; the copy buffer
   always has room for at least one byte *)
copy_recorder_read(i) ==
  /\ CanRead(i)
  /\ TnAvailable(DirOf(i)) # 0
  /\ \E remaining \in 1..MaxReadLen, sl \in as_slices(trec[DirOf(i)].buf) :
       LET r  == trec[DirOf(i)]
           rl == r.states[r.index + 1].reader_length
           n  == ReadCount(TnAvailable(DirOf(i)), remaining)
       IN  /\ hold' = [hold EXCEPT
                 ![i] = ReadBytes(r.buf, sl[1], sl[2], rl, n)]
           /\ trec' = [trec EXCEPT
                 ![DirOf(i)].states[r.index + 1].reader_length = rl + n]
  /\ UNCHANGED <<loop, rdone, sockIn, sockOut, sockAll, tunnel>>
  /\ UNCHANGED <<recVars, hsVars>>

(* io::copy into a socket: the write takes some of the chunk *)
copy_socket_write(i) ==
  /\ tunnel = "running"
  /\ loop[i] = "run"
  /\ hold[i] # <<>>
  /\ \E k \in 1..Len(hold[i]) :
       /\ sockOut' = [sockOut EXCEPT ![SinkOf(i)] = @ \o SubSeq(hold[i], 1, k)]
       /\ hold' = [hold EXCEPT ![i] = SubSeq(@, k + 1, Len(@))]
  /\ UNCHANGED <<trec, loop, rdone, sockIn, sockAll, tunnel>>
  /\ UNCHANGED <<recVars, hsVars>>

(* io::copy into a socket: the write fails *)
copy_socket_write_err(i) ==
  /\ tunnel = "running"
  /\ loop[i] = "run"
  /\ hold[i] # <<>>
  /\ loop' = [loop EXCEPT ![i] = "err"]
  /\ tunnel' = JoinResult(loop')
  /\ UNCHANGED <<trec, hold, rdone, sockIn, sockOut, sockAll>>
  /\ UNCHANGED <<recVars, hsVars>>

(* io::copy: the source is at end-of-stream and everything was written *)
copy_done(i) ==
  /\ tunnel = "running"
  /\ loop[i] = "run"
  /\ rdone[i]
  /\ hold[i] = <<>>
  /\ loop' = [loop EXCEPT ![i] = "done"]
  /\ tunnel' = JoinResult(loop')
  /\ UNCHANGED <<trec, hold, rdone, sockIn, sockOut, sockAll>>
  /\ UNCHANGED <<recVars, hsVars>>

TnNext ==
  \/ \E i \in SocketCopies : copy_socket_read(i)
  \/ \E i \in SocketCopies : copy_socket_eof(i)
  \/ \E i \in SocketCopies : copy_socket_read_err(i)
  \/ \E i \in SocketCopies : copy_recorder_write(i)
  \/ \E i \in RecorderCopies : copy_recorder_read_pending(i)
  \/ \E i \in RecorderCopies : copy_recorder_read(i)
  \/ \E i \in RecorderCopies : copy_socket_write(i)
  \/ \E i \in RecorderCopies : copy_socket_write_err(i)
  \/ \E i \in 1..4 : copy_done(i)

InitTunnel == RecorderInit /\ HsIdle /\ TnInit

SpecTunnel == InitTunnel /\ [][TnNext]_vars

(* =============================== claims ================================ *)

(* C1: with exactly one consumer registered before the first write, the
   bytes returned to it by read are, concatenated, a prefix of the bytes
   passed to write: write order, no gap, no duplication, across trims. *)
C1_DeliveredIsPrefix == IsPrefix(delivered[1], written)

(* a read that returned bytes lying after a trim point *)
C1_Witness ==
  /\ trimmed > 0
  /\ lastOp = "read"
  /\ Len(delivered[1]) > trimmed
  /\ Len(delivered[1]) = MaxWritten

(* C2: every consumer registered before the first write observes the
   complete byte sequence written, in write order: once a consumer has
   nothing left to read, what it was given is everything written. *)
AllRegisteredBeforeFirstWrite == \A k \in 1..Len(readers) : regAt[k] = 0

C2_AllObserveAll ==
  (~poisoned /\ AllRegisteredBeforeFirstWrite) =>
    \A h \in 1..Len(readers) :
      (readers[h].index < Len(states) /\ Available(h) = 0) =>
        delivered[h] = written

(* C3 (as stated): in every state with at least one registered consumer the
   retained length is at most total_written - min absolute read offset. *)
MinAbsOffset == trimmed + MinReaderLength(states)

C3_RetainedBoundedAlways ==
  Len(states) >= 1 => Len(buf) <= Len(written) - MinAbsOffset

(* C3 (amended): immediately after a write completes, the retained length
   is at most total_written - min absolute read offset over the entries of
   the consumer table. *)
C3_RetainedBoundedAfterWrite ==
  (lastOp = "write" /\ Len(states) >= 1) =>
    Len(buf) <= Len(written) - MinAbsOffset

(* a write that trimmed bytes every entry had consumed *)
C3_Witness ==
  /\ lastOp = "write"
  /\ Len(states) >= 1
  /\ trimmed >= 2
  /\ Len(buf) < Len(written)

(* C4: a consumer never reads a byte written before its registration: what
   it was given is a prefix of what was written after it registered. *)
C4_NoHistory ==
  \A h \in 1..Len(readers) :
    IsPrefix(delivered[h], SubSeq(written, regAt[h] + 1, Len(written)))

(* C5: a valid CONNECT request, however it is cut into reads, is answered
   with exactly the 200 and tunnelled: once the whole request was read and
   no read failed, the handshake is not waiting for more client bytes, and
   nothing but the 200 was written. *)
ValidRequests ==
  { Line_CONNECT_h_1 \o CRLF \o CRLF,
    Line_CONNECT_h_1 \o CRLF \o Line_Header \o CRLF \o CRLF,
    Line_CONNECT_h \o CRLF \o CRLF }

C5_ValidConnectTunnelled ==
  (fed \in ValidRequests /\ result = "running") =>
    /\ pc # "fill"
    /\ \A i \in 1..Len(cout) : cout[i].code = 200

(* C8: the lines returned are the CRLF-terminated segments of the bytes
   read, in order and without the delimiter, and the retained buffer is
   exactly the bytes read that no returned line consumed. *)
RECURSIVE JoinLines(_)
JoinLines(ls) ==
  IF Len(ls) = 0 THEN <<>>
  ELSE ls[1] \o CRLF \o JoinLines(Tail(ls))

C8_RoundTrip ==
  /\ JoinLines(lines) \o hbuf = fed
  /\ \A i \in 1..Len(lines) : CrlfPositions(lines[i]) = {}

(* C9: once the source has reported end-of-stream with no complete line
   buffered, read_line has ended with an I/O error. *)
C9_EofIsError == eof => result = "Err(io)"

(* C10: whenever the request line's method is not CONNECT, the client got
   the 405 and nothing else, no target connection was attempted and no
   tunnel was started. *)
MethodIsConnect(line) ==
  /\ Len(split_whitespace(line)) >= 1
  /\ split_whitespace(line)[1] = SubSeq(Str_CONNECT_SP, 1, 7)

C10_NonConnect405 ==
  (Len(lines) >= 1 /\ ~MethodIsConnect(connect_line)) =>
    /\ cout = <<Response(405, "Method Not Allowed")>>
    /\ target = <<>>
    /\ pc = "closed"
    /\ result = "Ok"

(* a GET request line was read and answered *)
C10_Witness ==
  /\ connect_line = Line_GET
  /\ Len(cout) = 1
  /\ cout[1].code = 405
  /\ pc = "closed"

(* C6: when both socket sources have reported end-of-stream and no copy
   failed, all four copies end and the tunnel completes: no buffer-to-socket
   copy is left suspended on a buffer whose writer has ended. *)
Parked(i) ==
  /\ loop[i] = "run"
  /\ hold[i] = <<>>
  /\ TnAvailable(DirOf(i)) = 0
  /\ trec[DirOf(i)].states[trec[DirOf(i)].index + 1].waker # 0

C6_CleanCloseCompletes ==
  (loop[1] = "done" /\ loop[3] = "done") =>
    ~(tunnel = "running" /\ Parked(2) /\ Parked(4))

(* C7: the tunnel reports success only if all four copies ended without
   error; when one copy ends with an error the tunnel ends with the error
   and, from then on, no copy takes a step. *)
C7_FirstErrorEndsTunnel ==
  /\ [](tunnel = "Ok" => \A i \in 1..4 : loop[i] = "done")
  /\ []((\E i \in 1..4 : loop[i] = "err") => tunnel = "Err")
  /\ [][tunnel # "running" => UNCHANGED tnVars]_vars

(* a copy failed while another one was suspended on a buffer read *)
C7_Witness ==
  /\ tunnel = "Err"
  /\ \E i \in RecorderCopies : Parked(i)
  /\ \E i \in 1..4 : loop[i] = "done"

(* C12: a read with max_len = 0 returns zero bytes at once, whatever the
   buffer holds: it does not suspend the consumer and does not advance. *)
C12_ZeroLenReadReturns ==
  (lastOp \in {"read", "read_pending"} /\ lastRead.remaining = 0) =>
    /\ lastOp = "read"
    /\ lastRead.n = 0
    /\ rstate[lastRead.h] # "suspended"

(* C13: every consumer handle refers to an existing entry of the consumer
   table and no two handles refer to the same entry. *)
C13_HandlesDistinctValid ==
  /\ \A h \in 1..Len(readers) : readers[h].index < Len(states)
  /\ \A h, k \in 1..Len(readers) :
       h # k => readers[h].index # readers[k].index

(* C15: right after a write the queue holds exactly the stream bytes from
   the minimum absolute read offset of the consumer table up to the write
   position, and the write moved no entry's absolute offset, so it dropped
   no byte that some entry had not read. *)
C15_WriteTrimsToMinimum ==
  /\ []((lastOp = "write" /\ Len(states) >= 1) =>
          buf = SubSeq(written, MinAbsOffset + 1, Len(written)))
  /\ [][(lastOp' = "write" /\ Len(states) >= 1) =>
          \A i \in 1..Len(states) :
            /\ trimmed' + states'[i].reader_length
                 = trimmed + states[i].reader_length
            /\ trimmed' <= trimmed + states[i].reader_length]_vars

(* a write trimmed behind a slow entry while another entry was ahead *)
C15_Witness ==
  /\ lastOp = "write"
  /\ Len(states) = 2
  /\ trimmed >= 1
  /\ \E i \in 1..Len(states) : states[i].reader_length >= 1

(* C16: no consumer stays suspended while bytes it has not read sit in the
   queue: the write that appended them resumed it. *)
C16_NoLostWakeup ==
  \A h \in 1..Len(readers) : rstate[h] = "suspended" => Available(h) = 0

(* C17: every entry's absolute read offset never decreases and never
   exceeds the write position; its stored cursor stays within the queue, so
   the subtractions of read and of write's trim do not underflow. *)
C17_OffsetsMonotoneBounded ==
  /\ [](\A i \in 1..Len(states) :
          /\ states[i].reader_length >= 0
          /\ states[i].reader_length <= Len(buf)
          /\ trimmed + states[i].reader_length <= Len(written))
  /\ [][\A i \in 1..Len(states) :
          trimmed' + states'[i].reader_length
            >= trimmed + states[i].reader_length]_vars

(* an entry that read up to the end of a queue that was trimmed before *)
C17_Witness ==
  /\ lastOp = "read"
  /\ trimmed > 0
  /\ \E i \in 1..Len(states) :
       states[i].reader_length = Len(buf) /\ states[i].reader_length >= 2

(* C18: get_overlap returns exactly the elements of the run whose logical
   positions lie in [begin, begin+size), in order; the overlap on the front
   run followed by the overlap on the back run is the queue's bytes
   [offset, offset+n) for every split; a read with data available copies
   exactly min(available, max_len) bytes from the consumer's offset and
   advances the offset by that amount. *)
InRange(b, buf_offset, begin, size) ==
  {j \in 1..Len(b) :
     begin <= buf_offset + j - 1 /\ buf_offset + j - 1 < begin + size}

ElementsInRange(b, buf_offset, begin, size) ==
  [k \in 1..Cardinality(InRange(b, buf_offset, begin, size)) |->
     b[SetMin(InRange(b, buf_offset, begin, size)) + k - 1]]

C18_OverlapAndReadExact ==
  /\ [](\A sl \in as_slices(buf), begin \in 0..(Len(buf) + 1),
           size \in 0..(MaxReadLen + 1) :
          /\ \A off \in 0..MaxWritten :
               get_overlap(sl[1], off, begin, size)
                 = ElementsInRange(sl[1], off, begin, size)
          /\ get_overlap(sl[2], Len(sl[1]), begin, size)
               = ElementsInRange(sl[2], Len(sl[1]), begin, size)
          /\ get_overlap(sl[1], 0, begin, size)
               \o get_overlap(sl[2], Len(sl[1]), begin, size)
               = ElementsInRange(buf, 0, begin, size))
  /\ [](/\ get_overlap(<<1, 2, 3, 4, 5>>, 0, 1, 2) = <<2, 3>>
        /\ get_overlap(<<1, 2, 3, 4, 5>>, 2, 3, 2) = <<2, 3>>
        /\ get_overlap(<<1, 2, 3, 4, 5>>, 0, 3, 7) = <<4, 5>>
        /\ get_overlap(<<>>, 0, 0, 0) = <<>>
        /\ get_overlap(<<1, 2, 3, 4, 5>>, 0, 2, 0) = <<>>)
  /\ [][lastOp' = "read" =>
          LET h  == lastRead'.h
              i  == readers[h].index + 1
              rl == states[i].reader_length
              n  == min(Len(buf) - rl, lastRead'.remaining)
          IN  /\ lastRead'.n = n
              /\ delivered'[h] = delivered[h] \o SubSeq(buf, rl + 1, rl + n)
              /\ states'[i].reader_length = rl + n]_vars

(* a read that took bytes from both physical runs of the queue *)
C18_Witness ==
  /\ lastOp = "read"
  /\ lastRead.n >= 2
  /\ LET rl == states[readers[lastRead.h].index + 1].reader_length
     IN  rl - lastRead.n < lastRead.front /\ lastRead.front < rl

(* C11 (as stated): every request line that is not three whitespace
   separated tokens ending in HTTP/1.1, whatever its first token, gets the
   400, and no further line is read and no target connection attempted. *)
ThreeTokens(line) ==
  /\ Len(split_whitespace(line)) = 3
  /\ split_whitespace(line)[3] = Str_HTTP11

Rejected400 ==
  /\ cout = <<Response(400, "Bad Request")>>
  /\ Len(lines) = 1
  /\ target = <<>>
  /\ pc = "closed"
  /\ result = "Ok"

C11_Malformed400 ==
  (Len(lines) >= 1 /\ ~ThreeTokens(connect_line)) => Rejected400

(* C11 (amended): every request line that begins with "CONNECT " and is not
   three whitespace separated tokens ending in HTTP/1.1 gets the 400, and
   no further line is read and no target connection attempted. *)
C11_MalformedConnect400 ==
  (/\ Len(lines) >= 1
   /\ starts_with(connect_line, Str_CONNECT_SP)
   /\ ~ThreeTokens(connect_line)) => Rejected400

(* a CONNECT line with the wrong protocol token was rejected *)
C11_Witness ==
  /\ connect_line = Line_CONNECT_http10
  /\ Len(cout) = 1
  /\ cout[1].code = 400
  /\ pc = "closed"

(* C14: the 200 is sent at most once, only after a three-token
   CONNECT ... HTTP/1.1 line, the empty line and a successful connect; the
   tunnel starts only after the 200; at most one status response is sent,
   so a 400 or 405 is never followed by a 200 or a tunnel. *)
Sent(code) == \E i \in 1..Len(cout) : cout[i].code = code

C14_HandshakeOrder ==
  /\ Len(cout) <= 1
  /\ Sent(200) =>
       /\ ThreeTokens(connect_line)
       /\ split_whitespace(connect_line)[1] = SubSeq(Str_CONNECT_SP, 1, 7)
       /\ Len(lines) >= 2
       /\ lines[Len(lines)] = <<>>
       /\ Len(target) = 1
       /\ target[1].ok
  /\ pc = "tunnel" => cout = <<Response(200, "")>>
  /\ (Sent(400) \/ Sent(405)) => (~Sent(200) /\ pc # "tunnel")

(* a request with a header line reached the tunnel *)
C14_Witness ==
  /\ pc = "tunnel"
  /\ Len(lines) = 3
  /\ lines[2] = Line_Header
  /\ Sent(200)

(* C19: a target without a port is connected on port 443; a non-numeric
   port ends the connection with the invalid-input error, with no connect
   and no response; a failed connect ends it with the I/O error and no
   response. *)
HeadersDone ==
  /\ Len(lines) >= 2
  /\ lines[Len(lines)] = <<>>
  /\ pc # "resolve"

PortNonNumeric(host_port) ==
  /\ ColonPositions(host_port) # {}
  /\ \E i \in 1..Len(PortStrOf(host_port)) :
       PortStrOf(host_port)[i] \notin (48..57) \cup {43}

C19_PortResolution ==
  /\ (Len(target) >= 1 /\ ColonPositions(HostPort) = {}) =>
       (target[1].port = 443 /\ target[1].host = HostPort)
  /\ result = "Err(InvalidInput)" =>
       (target = <<>> /\ cout = <<>> /\ pc = "closed")
  /\ (HeadersDone /\ PortNonNumeric(HostPort)) =>
       result = "Err(InvalidInput)"
  /\ (Len(target) >= 1 /\ ~target[1].ok) =>
       (result = "Err(io)" /\ cout = <<>> /\ pc = "closed")

(* the default port was used and the connect failed *)
C19_Witness ==
  /\ connect_line = Line_CONNECT_h
  /\ target = <<[host |-> <<104>>, port |-> 443, ok |-> FALSE]>>
  /\ result = "Err(io)"
  /\ cout = <<>>

(* C20: whenever a line of the handshake, request line or header line, is
   not valid text, the client got a 400 before the error was returned. *)
C20_InvalidData400 ==
  result = "Err(InvalidData)" => (Len(cout) = 1 /\ cout[1].code = 400)

====
